---- MODULE Spec2Model ----
(***************************************************************************)
(* Model of gst/audioconvert/gstaudioconvert.c: caps negotiation           *)
(* (transform_caps), fixation (fixate_caps), caps parsing (parse_caps,     *)
(* get_unit_size) and the per-buffer stage (set_caps, transform).          *)
(*                                                                         *)
(* A GstStructure is a record: its name and, for each of the six fields    *)
(* the element uses, the SET of values the field admits.  An absent field  *)
(* is the empty set, a fixed field (G_TYPE_INT / G_TYPE_BOOLEAN) is a      *)
(* singleton, a GST_TYPE_LIST or GST_TYPE_INT_RANGE is the set of its      *)
(* members.  Booleans are 1 (TRUE) and 0 (FALSE).  "positions" is the      *)
(* state of the channel-positions field: "absent", "valid" or "invalid".   *)
(***************************************************************************)
EXTENDS Integers, Sequences, FiniteSets, TLC

VARIABLES caps, ret, tmpl, othercaps, phase,
          raw, fmt, parsed,
          ctx, last, ncalls, negotiated

vars == <<caps, ret, tmpl, othercaps, phase, raw, fmt, parsed, ctx, last, ncalls,
         negotiated>>
negVars == <<caps, ret, tmpl, othercaps, phase>>
parseVars == <<raw, fmt, parsed>>
stageVars == <<ctx, last, ncalls, negotiated>>

(* ------------------------------ constants ------------------------------ *)
G_LITTLE_ENDIAN == 1234
G_BIG_ENDIAN == 4321
G_BYTE_ORDER == G_LITTLE_ENDIAN
RAW_INT == "audio/x-raw-int"
RAW_FLOAT == "audio/x-raw-float"
\* mutation: the rate is not among the fields carried over
fields_used_without_rate == {"width", "depth", "channels", "endianness", "signed"}
fields_used == {"width", "depth", "rate", "channels", "endianness", "signed"}

(* ------------------------------- bounds -------------------------------- *)
\* uninitialised locals read by the code take a value in 0..MaxGarbage
MaxGarbage == 2
\* buffer sizes in bytes range over 0..MaxBuf
MaxBuf == 9
\* number of set_caps / transform calls on one stage
MaxCalls == 3

Abs(x) == IF x < 0 THEN -x ELSE x

(* --------------------------- GstStructure ------------------------------ *)
gst_structure_empty_new(name) ==
  [name |-> name, width |-> {}, depth |-> {}, rate |-> {}, channels |-> {},
   endianness |-> {}, signed |-> {}, positions |-> "absent"]

gst_structure_has_field(s, f) == s[f] # {}

\* fixed caps: no field is a list or a range
gst_caps_is_fixed(s) == \A f \in fields_used : Cardinality(s[f]) <= 1

\* gst_structure_get_int / get_boolean succeed on a field holding one value
gst_structure_get_int(s, f) == Cardinality(s[f]) = 1
ValueOf(s, f) == CHOOSE v \in s[f] : TRUE

\* the member nearest to target, the earlier (smaller) one on a tie
NearestInt(S, target) ==
  CHOOSE x \in S : \A y \in S :
     \/ Abs(target - x) < Abs(target - y)
     \/ Abs(target - x) = Abs(target - y) /\ x <= y

gst_structure_fixate_field_nearest_int(s, f, target) ==
  IF Cardinality(s[f]) > 1 THEN [s EXCEPT ![f] = {NearestInt(s[f], target)}]
  ELSE s

gst_structure_fixate_field_boolean(s, f, target) ==
  IF Cardinality(s[f]) > 1
  THEN [s EXCEPT ![f] = IF target \in s[f] THEN {target}
                        ELSE {CHOOSE v \in s[f] : TRUE}]
  ELSE s

(* --------------------------- transform_caps ---------------------------- *)
\* mutation: the loop stops one step early (width < max)
set_structure_widths_exclusive(s, min, max) ==
  IF min = max THEN [s EXCEPT !.width = {min}]
  ELSE [s EXCEPT !.width = {w \in min..(max - 1) : (w - min) % 8 = 0}]

\* Set widths (a list); multiples of 8 between min and max
set_structure_widths(s, min, max) ==
  IF min = max THEN [s EXCEPT !.width = {min}]
  ELSE [s EXCEPT !.width = {w \in min..max : (w - min) % 8 = 0}]

\* mutation: the 32 is never appended to the list
set_structure_widths_64_only(s) == [s EXCEPT !.width = {64}]

set_structure_widths_32_and_64(s) == [s EXCEPT !.width = {32, 64}]

make_lossless_changes(s, isfloat) ==
  IF isfloat
  THEN [set_structure_widths_32_and_64([s EXCEPT !.depth = {}, !.signed = {}])
          EXCEPT !.endianness = {G_BYTE_ORDER}]
  ELSE [s EXCEPT !.endianness = {G_LITTLE_ENDIAN, G_BIG_ENDIAN},
                 !.signed = {1, 0}]

\* an entry of the returned caps: the structure and the tier that emitted it
Entry(tier, s) == [tier |-> tier, s |-> s]

append_with_other_format(c, s, isfloat, tier) ==
  IF isfloat
  THEN Append(c, Entry(tier, make_lossless_changes([s EXCEPT !.name = RAW_INT], FALSE)))
  ELSE Append(c, Entry(tier, make_lossless_changes([s EXCEPT !.name = RAW_FLOAT], TRUE)))

\* a version of the original structure with any additional fields absent
strip_fields(structure) ==
  LET keep(f) == IF f \in fields_used THEN structure[f] ELSE {}
  IN  [gst_structure_empty_new(structure.name) EXCEPT
         !.width = keep("width"), !.depth = keep("depth"),
         !.rate = keep("rate"), !.channels = keep("channels"),
         !.endianness = keep("endianness"), !.signed = keep("signed")]

\* depth left out: set it equal to width if we have a fixed width
default_depth(s, isfloat) ==
  IF ~isfloat /\ ~gst_structure_has_field(s, "depth")
     /\ gst_structure_get_int(s, "width")
  THEN [s EXCEPT !.depth = {ValueOf(s, "width")}] ELSE s

\* increasing width/depth, integer only
widen_format(s, structure, isfloat) ==
  LET sw == IF ~isfloat /\ gst_structure_get_int(structure, "width")
            THEN set_structure_widths(s, ValueOf(structure, "width"), 32)
            ELSE s
  IN  IF ~isfloat /\ gst_structure_get_int(structure, "depth")
      THEN IF ValueOf(structure, "depth") = 32
           THEN [sw EXCEPT !.depth = {32}]
           ELSE [sw EXCEPT !.depth = ValueOf(structure, "depth")..32]
      ELSE sw

\* mutation: the range starts at 1 instead of the fixed channel count
widen_channels_from_one(s, structure) ==
  IF gst_structure_get_int(structure, "channels")
  THEN [s EXCEPT !.channels = 1..8]
  ELSE s

\* increasing channels
widen_channels(s, structure) ==
  IF gst_structure_get_int(structure, "channels")
  THEN IF ValueOf(structure, "channels") = 8
       THEN [s EXCEPT !.channels = {8}]
       ELSE [s EXCEPT !.channels = ValueOf(structure, "channels")..8]
  ELSE s

\* mutation: only the depth is floored at 16, the widths are left alone
reduce_depth_only(s) == [s EXCEPT !.depth = 16..32]

\* reduce depth as low as 16 bits
reduce_depth(s) == [set_structure_widths(s, 16, 32) EXCEPT !.depth = 16..32]

\* mutation: channels is only replaced where the structure has the field
reduce_channels_if_present(s) ==
  IF gst_structure_has_field(s, "channels") THEN [s EXCEPT !.channels = 1..8]
  ELSE s

\* fewer channels
reduce_channels(s) == [s EXCEPT !.channels = 1..8]

\* any width/depth we support
any_format(s) == [set_structure_widths(s, 8, 32) EXCEPT !.depth = 1..32]

gst_audio_convert_transform_caps(structure) ==
  LET isfloat == structure.name = RAW_FLOAT
      s0 == default_depth(strip_fields(structure), isfloat)
      \* all lossless conversions, plus a float<->int conversion
      s1 == make_lossless_changes(s0, isfloat)
      ret1 == append_with_other_format(<<Entry("lossless", s1)>>, s1, isfloat,
                                       "lossless-cross")
      s3 == widen_channels(widen_format(s1, structure, isfloat), structure)
      ret3 == append_with_other_format(Append(ret1, Entry("widening", s3)), s3,
                                       isfloat, "widening-cross")
      reduce == ~gst_structure_get_int(structure, "width")
                \/ ValueOf(structure, "width") > 16
      ret4 == IF reduce
              THEN IF isfloat
                   THEN append_with_other_format(ret3, reduce_depth(s3), TRUE,
                                                 "depth16")
                   ELSE Append(ret3, Entry("depth16", reduce_depth(s3)))
              ELSE ret3
      \* for integer, s now is the depth-reduced structure
      s4 == IF reduce /\ ~isfloat THEN reduce_depth(s3) ELSE s3
      s5 == reduce_channels(s4)
      ret5 == append_with_other_format(Append(ret4, Entry("channels", s5)), s5,
                                       isfloat, "channels-cross")
      s6 == any_format(s5)
  IN  IF isfloat THEN append_with_other_format(ret5, s6, TRUE, "fallback")
      ELSE Append(ret5, Entry("fallback", s6))

(* ----------------------------- fixate_caps ----------------------------- *)
\* mutation: no "set depth as width" branch when ins has no depth
fixate_caps_without_depth_default(ins, outs, garbage) ==
  LET nearest(o, f, target) ==
        IF gst_structure_has_field(o, f)
        THEN gst_structure_fixate_field_nearest_int(o, f, target) ELSE o
      o1 == IF gst_structure_get_int(ins, "channels")
            THEN nearest(outs, "channels", ValueOf(ins, "channels")) ELSE outs
      o2 == IF gst_structure_get_int(ins, "rate")
            THEN nearest(o1, "rate", ValueOf(ins, "rate")) ELSE o1
      o3 == IF gst_structure_get_int(ins, "endianness")
            THEN nearest(o2, "endianness", ValueOf(ins, "endianness")) ELSE o2
      o4 == IF gst_structure_get_int(ins, "width")
            THEN nearest(o3, "width", ValueOf(ins, "width")) ELSE o3
      o5 == IF gst_structure_get_int(ins, "depth")
            THEN nearest(o4, "depth", ValueOf(ins, "depth")) ELSE o4
  IN  IF gst_structure_get_int(ins, "signed")
         /\ gst_structure_has_field(o5, "signed")
      THEN gst_structure_fixate_field_boolean(o5, "signed", ValueOf(ins, "signed"))
      ELSE o5

\* garbage is what the uninitialised local width holds when ins has no width
gst_audio_convert_fixate_caps(ins, outs, garbage) ==
  LET nearest(o, f, target) ==
        IF gst_structure_has_field(o, f)
        THEN gst_structure_fixate_field_nearest_int(o, f, target) ELSE o
      o1 == IF gst_structure_get_int(ins, "channels")
            THEN nearest(outs, "channels", ValueOf(ins, "channels")) ELSE outs
      o2 == IF gst_structure_get_int(ins, "rate")
            THEN nearest(o1, "rate", ValueOf(ins, "rate")) ELSE o1
      o3 == IF gst_structure_get_int(ins, "endianness")
            THEN nearest(o2, "endianness", ValueOf(ins, "endianness")) ELSE o2
      width == IF gst_structure_get_int(ins, "width")
               THEN ValueOf(ins, "width") ELSE garbage
      o4 == IF gst_structure_get_int(ins, "width")
            THEN nearest(o3, "width", width) ELSE o3
      o5 == IF gst_structure_get_int(ins, "depth")
            THEN nearest(o4, "depth", ValueOf(ins, "depth"))
            ELSE nearest(o4, "depth", width)
  IN  IF ~gst_caps_is_fixed(ins) THEN outs
      ELSE IF gst_structure_get_int(ins, "signed")
              /\ gst_structure_has_field(o5, "signed")
      THEN gst_structure_fixate_field_boolean(o5, "signed", ValueOf(ins, "signed"))
      ELSE o5

(* ------------------------------ parse_caps ----------------------------- *)
\* AudioConvertFmt fmt = { 0 }
ZeroFmt ==
  [is_int |-> FALSE, endianness |-> 0, width |-> 0, rate |-> 0, channels |-> 0,
   pos |-> "NULL", sign |-> 0, depth |-> 0, unit_size |-> 0]

\* frees the positions and forgets them
audio_convert_clean_fmt(f) == [f EXCEPT !.pos = "NULL"]

\* the positions of the structure, the default layout when it names none;
\* NULL when there is no channel count or the positions are not a valid layout
gst_audio_get_channel_positions(structure) ==
  IF ~gst_structure_get_int(structure, "channels")
     \/ structure.positions = "invalid"
  THEN "NULL" ELSE "set"

Failed(f) == [ok |-> FALSE, fmt |-> audio_convert_clean_fmt(f)]

Parsed(f) ==
  [ok |-> TRUE, fmt |-> [f EXCEPT !.unit_size = (f.width * f.channels) \div 8]]

\* mutation: depth is not compared with width
parse_int_fields_any_depth(structure, f4) ==
  LET f5 == [f4 EXCEPT !.sign = ValueOf(structure, "signed")]
      f6 == [f5 EXCEPT !.depth = ValueOf(structure, "depth")]
      f7 == IF f6.width # 8
            THEN [f6 EXCEPT !.endianness = ValueOf(structure, "endianness")]
            ELSE f6
  IN  IF ~gst_structure_get_int(structure, "signed") THEN Failed(f4)
      ELSE IF ~gst_structure_get_int(structure, "depth") THEN Failed(f5)
      ELSE IF f6.width # 8 /\ ~gst_structure_get_int(structure, "endianness")
           THEN Failed(f6)
      ELSE Parsed(f7)

\* int specific fields: signed, depth, endianness unless width is 8
parse_int_fields(structure, f4) ==
  LET f5 == [f4 EXCEPT !.sign = ValueOf(structure, "signed")]
      f6 == [f5 EXCEPT !.depth = ValueOf(structure, "depth")]
      f7 == IF f6.width # 8
            THEN [f6 EXCEPT !.endianness = ValueOf(structure, "endianness")]
            ELSE f6
  IN  IF ~gst_structure_get_int(structure, "signed") THEN Failed(f4)
      ELSE IF ~gst_structure_get_int(structure, "depth") THEN Failed(f5)
      ELSE IF f6.width # 8 /\ ~gst_structure_get_int(structure, "endianness")
           THEN Failed(f6)
      ELSE IF f7.depth > f7.width THEN Failed(f7)
      ELSE Parsed(f7)

gst_audio_convert_parse_caps(structure, fmt0) ==
  LET f0 == [audio_convert_clean_fmt(fmt0) EXCEPT
               !.endianness = G_BYTE_ORDER,
               !.is_int = (structure.name = RAW_INT)]
      f1 == [f0 EXCEPT !.channels = ValueOf(structure, "channels")]
      f2 == [f1 EXCEPT !.pos = gst_audio_get_channel_positions(structure)]
      f3 == [f2 EXCEPT !.width = ValueOf(structure, "width")]
      f4 == [f3 EXCEPT !.rate = ValueOf(structure, "rate")]
  IN  IF ~gst_caps_is_fixed(structure) THEN [ok |-> FALSE, fmt |-> fmt0]
      ELSE IF ~gst_structure_get_int(structure, "channels") THEN Failed(f0)
      ELSE IF f2.pos = "NULL" THEN Failed(f2)
      ELSE IF ~gst_structure_get_int(structure, "width") THEN Failed(f2)
      ELSE IF ~gst_structure_get_int(structure, "rate") THEN Failed(f3)
      ELSE IF f4.is_int THEN parse_int_fields(structure, f4)
      ELSE Parsed(f4)

gst_audio_convert_get_unit_size(structure) ==
  LET r == gst_audio_convert_parse_caps(structure, ZeroFmt)
  IN  IF r.ok THEN [ok |-> TRUE, size |-> r.fmt.unit_size]
      ELSE [ok |-> FALSE, size |-> 0]

(* -------------------------- conversion context ------------------------- *)
\* the context of a freshly constructed element: instance memory is zeroed
\* and gst_audio_convert_init writes nothing
ZeroCtx == [prepared |-> FALSE, in |-> ZeroFmt, out |-> ZeroFmt]

\* prepare: all-or-nothing; refuses unrecognised positions and zero unit sizes
audio_convert_prepare_context(c, in, out) ==
  IF in.pos = "NULL" \/ out.pos = "NULL" \/ in.unit_size = 0 \/ out.unit_size = 0
  THEN [ok |-> FALSE, ctx |-> c]
  ELSE [ok |-> TRUE, ctx |-> [prepared |-> TRUE, in |-> in, out |-> out]]

\* sizesFor: NotPrepared before a successful prepare
audio_convert_get_sizes(c, samples) ==
  IF ~c.prepared THEN [ok |-> FALSE, insize |-> 0, outsize |-> 0]
  ELSE [ok |-> TRUE, insize |-> samples * c.in.unit_size,
        outsize |-> samples * c.out.unit_size]

(* ------------------------------- set_caps ------------------------------ *)
\* mutation: the input format is stored in the context as soon as it parsed
set_caps_storing_early(c, incaps, outcaps) ==
  LET pin == gst_audio_convert_parse_caps(incaps, ZeroFmt)
      pout == gst_audio_convert_parse_caps(outcaps, ZeroFmt)
      c1 == [c EXCEPT !.in = pin.fmt]
      prep == audio_convert_prepare_context(c1, pin.fmt, pout.fmt)
  IN  IF ~pin.ok THEN [ret |-> FALSE, parsefail |-> TRUE, ctx |-> c]
      ELSE IF ~pout.ok THEN [ret |-> FALSE, parsefail |-> TRUE, ctx |-> c1]
      ELSE IF ~prep.ok THEN [ret |-> FALSE, parsefail |-> FALSE, ctx |-> prep.ctx]
      ELSE [ret |-> TRUE, parsefail |-> FALSE, ctx |-> prep.ctx]

gst_audio_convert_set_caps(c, incaps, outcaps) ==
  LET pin == gst_audio_convert_parse_caps(incaps, ZeroFmt)
      pout == gst_audio_convert_parse_caps(outcaps, ZeroFmt)
      prep == audio_convert_prepare_context(c, pin.fmt, pout.fmt)
  IN  IF ~pin.ok THEN [ret |-> FALSE, parsefail |-> TRUE, ctx |-> c]
      ELSE IF ~pout.ok THEN [ret |-> FALSE, parsefail |-> TRUE, ctx |-> c]
      ELSE IF ~prep.ok THEN [ret |-> FALSE, parsefail |-> FALSE, ctx |-> prep.ctx]
      ELSE [ret |-> TRUE, parsefail |-> FALSE, ctx |-> prep.ctx]

(* ------------------------------ transform ------------------------------ *)
\* The outcome of one call.  inbuf and outbuf are GST_BUFFER_SIZE of the two
\* buffers on entry, convok what audio_convert_convert returns if it is
\* called.  Dividing by a zero unit size is undefined: the build either traps
\* (trap) or goes on with some value of samples (garbage).
Outcome(r, ub, sized, conv, samples, sz, inbuf, outbuf, outafter) ==
  [op |-> "transform", ret |-> r, ub |-> ub, sized |-> sized, convert |-> conv,
   samples |-> samples, insize |-> sz.insize, outsize |-> sz.outsize,
   inbuf |-> inbuf, outbuf |-> outbuf, outafter |-> outafter,
   parsefail |-> FALSE]

\* mutation: only the source buffer is checked
wrong_size_in_only(inbuf, outbuf, sz) == inbuf < sz.insize

\* check in and outsize
wrong_size(inbuf, outbuf, sz) == inbuf < sz.insize \/ outbuf < sz.outsize

gst_audio_convert_transform(c, inbuf, outbuf, convok, trap, garbage) ==
  LET ub == c.in.unit_size = 0
      samples == IF ub THEN garbage ELSE inbuf \div c.in.unit_size
      sz == audio_convert_get_sizes(c, samples)
  IN  IF ub /\ trap
      THEN Outcome("SIGFPE", TRUE, FALSE, FALSE, 0, sz, inbuf, outbuf, outbuf)
      ELSE IF ~sz.ok
      THEN Outcome("GST_FLOW_ERROR", ub, FALSE, FALSE, samples, sz, inbuf, outbuf, outbuf)
      ELSE IF sz.insize = 0 \/ sz.outsize = 0
      THEN Outcome("GST_FLOW_OK", ub, TRUE, FALSE, samples, sz, inbuf, outbuf, outbuf)
      ELSE IF wrong_size(inbuf, outbuf, sz)
      THEN Outcome("GST_FLOW_ERROR", ub, TRUE, FALSE, samples, sz, inbuf, outbuf, outbuf)
      ELSE IF ~convok
      THEN Outcome("GST_FLOW_ERROR", ub, TRUE, TRUE, samples, sz, inbuf, outbuf, outbuf)
      ELSE Outcome("GST_FLOW_OK", ub, TRUE, TRUE, samples, sz, inbuf, outbuf, sz.outsize)

(* ------------------------------- inputs -------------------------------- *)
IntWidths == {8, 16, 24, 32}
FloatWidths == {32, 64}
Depths == {1, 8, 12, 16, 20, 24, 32}
ChannelCounts == {1, 2, 6, 8}
Rates == {8000, 44100}
Endians == {G_LITTLE_ENDIAN, G_BIG_ENDIAN}
Opt(S) == {{x} : x \in S} \cup {{}}

Structure(name, w, d, r, c, e, sg, pos) ==
  [name |-> name, width |-> w, depth |-> d, rate |-> r, channels |-> c,
   endianness |-> e, signed |-> sg, positions |-> pos]

\* the concrete formats of the pad template (STATIC_CAPS), with the fields a
\* peer may leave out: depth, and endianness for 8-bit integer and for float
IntSides ==
  { Structure(RAW_INT, {w}, d, {r}, {c}, e, {sg}, pos) :
      w \in IntWidths, d \in Opt(Depths), r \in Rates, c \in ChannelCounts,
      e \in Opt(Endians), sg \in {0, 1}, pos \in {"absent", "valid"} }
FloatSides ==
  { Structure(RAW_FLOAT, {w}, {}, {r}, {c}, e, {}, pos) :
      w \in FloatWidths, r \in Rates, c \in ChannelCounts,
      e \in {{G_BYTE_ORDER}, {}}, pos \in {"absent", "valid"} }
FixedSides ==
  { s \in IntSides :
      /\ s.depth # {} => ValueOf(s, "depth") <= ValueOf(s, "width")
      /\ s.endianness = {} => s.width = {8} }
  \cup FloatSides

\* fixed caps as a peer may hand them to parse_caps: any field may be missing
RawStructures ==
  { Structure(n, w, d, r, c, e, sg, pos) :
      n \in {RAW_INT, RAW_FLOAT}, w \in Opt({8, 16, 32}), d \in Opt({8, 16, 24}),
      r \in Opt({44100}), c \in Opt({1, 2}), e \in Opt(Endians),
      sg \in Opt({0, 1}), pos \in {"absent", "valid", "invalid"} }

\* the caps the stage is configured with
S16 == Structure(RAW_INT, {16}, {16}, {44100}, {2}, {G_LITTLE_ENDIAN}, {1}, "absent")
F32 == Structure(RAW_FLOAT, {32}, {}, {44100}, {2}, {G_BYTE_ORDER}, {}, "absent")
U8 == Structure(RAW_INT, {8}, {8}, {44100}, {1}, {}, {0}, "valid")
NoRate == Structure(RAW_INT, {16}, {16}, {}, {1}, {G_BIG_ENDIAN}, {1}, "absent")
Deep == Structure(RAW_INT, {16}, {24}, {44100}, {2}, {G_LITTLE_ENDIAN}, {1}, "absent")
Nibble == Structure(RAW_INT, {4}, {4}, {44100}, {1}, {G_LITTLE_ENDIAN}, {1}, "absent")
StageCaps == {S16, F32, U8, NoRate, Deep, Nibble}

NoCall ==
  [op |-> "none", ret |-> "none", ub |-> FALSE, sized |-> FALSE,
   convert |-> FALSE, samples |-> 0, insize |-> 0, outsize |-> 0, inbuf |-> 0,
   outbuf |-> 0, outafter |-> 0, parsefail |-> FALSE]

\* the (width, depth) pairs of the integer structures of the pad template
IntegerEnvelope == {p \in IntWidths \X (1..32) : p[2] <= p[1]}

(* ------------------------------ negotiation ---------------------------- *)
NegIdle ==
  /\ caps = gst_structure_empty_new(RAW_INT) /\ ret = <<>> /\ tmpl = 0
  /\ othercaps = gst_structure_empty_new(RAW_INT) /\ phase = "off"
ParseIdle == raw = gst_structure_empty_new(RAW_INT) /\ fmt = ZeroFmt /\ parsed = "off"
StageIdle == ctx = ZeroCtx /\ last = NoCall /\ ncalls = 0 /\ negotiated = <<>>

InitNegotiate ==
  /\ caps \in FixedSides /\ ret = <<>> /\ tmpl = 0
  /\ othercaps = gst_structure_empty_new(RAW_INT) /\ phase = "caps"
  /\ ParseIdle /\ StageIdle

\* the base class asks for the other side's templates
TransformCaps ==
  /\ phase = "caps"
  /\ ret' = gst_audio_convert_transform_caps(caps)
  /\ phase' = "templates"
  /\ UNCHANGED <<caps, tmpl, othercaps, parseVars, stageVars>>

\* the base class hands one of the templates back to be fixated
FixateCaps ==
  /\ phase = "templates"
  /\ \E i \in 1..Len(ret), garbage \in 0..MaxGarbage :
       /\ tmpl' = i
       /\ othercaps' = gst_audio_convert_fixate_caps(caps, ret[i].s, garbage)
  /\ phase' = "fixated"
  /\ UNCHANGED <<caps, ret, parseVars, stageVars>>

NextNegotiate == TransformCaps \/ FixateCaps
SpecNegotiate == InitNegotiate /\ [][NextNegotiate]_vars

(* ----------------------- negotiation, partial caps --------------------- *)
\* caps of a peer that leaves fields out or open: channels absent, a range
\* or a list; width and depth possibly absent
OpenChannels == {{}, 1..8, 1..2, {2, 6}, {2}}
PartialSides ==
  { s \in { Structure(RAW_INT, w, d, {44100}, c, e, {1}, "absent") :
              w \in Opt(IntWidths), d \in Opt({8, 16, 24}), c \in OpenChannels,
              e \in Opt(Endians) } :
      s.width # {} /\ s.depth # {} => ValueOf(s, "depth") <= ValueOf(s, "width") }
  \cup { Structure(RAW_FLOAT, w, {}, {44100}, c, e, {}, "absent") :
           w \in Opt(FloatWidths), c \in OpenChannels,
           e \in {{G_BYTE_ORDER}, {}} }

InitPartial ==
  /\ caps \in PartialSides /\ ret = <<>> /\ tmpl = 0
  /\ othercaps = gst_structure_empty_new(RAW_INT) /\ phase = "caps"
  /\ ParseIdle /\ StageIdle

SpecPartial == InitPartial /\ [][NextNegotiate]_vars

(* -------------------------------- parsing ------------------------------ *)
InitParse ==
  /\ raw \in RawStructures /\ fmt = ZeroFmt /\ parsed = "none"
  /\ NegIdle /\ StageIdle

ParseCaps ==
  /\ parsed = "none"
  /\ LET r == gst_audio_convert_parse_caps(raw, fmt)
     IN  fmt' = r.fmt /\ parsed' = IF r.ok THEN "TRUE" ELSE "FALSE"
  /\ UNCHANGED <<raw, negVars, stageVars>>

\* the same descriptor is parsed into again with other caps
NextCaps ==
  /\ parsed \in {"TRUE", "FALSE"}
  /\ raw' \in {S16, F32, U8, NoRate, Deep}
  /\ parsed' = "none"
  /\ UNCHANGED <<fmt, negVars, stageVars>>

NextParse == ParseCaps \/ NextCaps
SpecParse == InitParse /\ [][NextParse]_vars

(* --------------------------------- stage ------------------------------- *)
InitStage == NegIdle /\ ParseIdle /\ StageIdle

SetCaps ==
  /\ ncalls < MaxCalls
  /\ \E incaps \in StageCaps, outcaps \in StageCaps :
       LET r == gst_audio_convert_set_caps(ctx, incaps, outcaps)
       IN  /\ ctx' = r.ctx
           /\ last' = [NoCall EXCEPT !.op = "set_caps",
                         !.ret = IF r.ret THEN "TRUE" ELSE "FALSE",
                         !.parsefail = r.parsefail]
           /\ negotiated' = IF r.ret THEN <<incaps, outcaps>> ELSE negotiated
  /\ ncalls' = ncalls + 1
  /\ UNCHANGED <<negVars, parseVars>>

Transform ==
  /\ ncalls < MaxCalls
  /\ \E inbuf \in 0..MaxBuf, outbuf \in 0..MaxBuf, convok \in BOOLEAN,
        trap \in BOOLEAN, garbage \in 0..MaxGarbage :
       last' = gst_audio_convert_transform(ctx, inbuf, outbuf, convok, trap, garbage)
  /\ ncalls' = ncalls + 1
  /\ UNCHANGED <<ctx, negotiated, negVars, parseVars>>

NextStage == SetCaps \/ Transform
SpecStage == InitStage /\ [][NextStage]_vars

(* ======================= properties: negotiation ======================= *)
Negotiated == phase \in {"templates", "fixated"}
Last == ret[Len(ret)].s

\* every format template t1 admits is admitted by template t2
Covers(t2, t1) ==
  /\ t1.name = t2.name
  /\ \A f \in fields_used :
       t2[f] # {} => (t1[f] # {} /\ t1[f] \subseteq t2[f])

\* C1 (as stated): transform_caps returns a non-empty list whose last template
\* admits every format any earlier template admits, the cross-encoding
\* (INTEGER<->FLOAT) templates included.
C1_LastCoversAllTemplates ==
  Negotiated => Len(ret) > 0 /\ \A i \in 1..Len(ret) : Covers(Last, ret[i].s)

\* C1 (amended): transform_caps returns a non-empty list; for an INTEGER fixed
\* side the last template is INTEGER and admits every format any earlier
\* INTEGER template admits.  The FLOAT templates are not covered by it.
C1_LastCoversIntegerTemplates ==
  Negotiated =>
    /\ Len(ret) > 0
    /\ caps.name = RAW_INT =>
         /\ Last.name = RAW_INT
         /\ \A i \in 1..Len(ret) :
              ret[i].s.name = RAW_INT => Covers(Last, ret[i].s)

C1_Witness ==
  /\ phase = "templates" /\ caps.name = RAW_INT /\ Len(ret) = 8
  /\ caps.width = {24} /\ caps.depth = {20} /\ caps.channels = {6}
  /\ ret[3].s.width = {24, 32} /\ ret[3].s.depth = 20..32
  /\ Covers(Last, ret[3].s) /\ ~Covers(ret[3].s, Last)

\* C2 (as stated): after fixate_caps(d, t), for every template t of
\* transform_caps(d), no field of t is left a list or a range.
C2_EveryFieldFixed ==
  phase = "fixated" => \A f \in fields_used : Cardinality(othercaps[f]) <= 1

\* C2 (amended): after fixate_caps(d, t) channels, rate, width and depth of t
\* hold a single value; endianness and signed hold a single value when d
\* carries that field, and are left as the template had them when d does not.
C2_FieldsOfFixedSideFixed ==
  phase = "fixated" =>
    /\ \A f \in {"channels", "rate", "width", "depth"} :
         Cardinality(othercaps[f]) <= 1
    /\ \A f \in {"endianness", "signed"} :
         IF caps[f] # {} THEN Cardinality(othercaps[f]) <= 1
         ELSE othercaps[f] = ret[tmpl].s[f]

C2_Witness ==
  /\ phase = "fixated" /\ caps.name = RAW_FLOAT /\ othercaps.name = RAW_INT
  /\ ret[tmpl].tier = "fallback" /\ caps.width = {64}
  /\ othercaps.width = {32} /\ othercaps.depth = {32}
  /\ othercaps.signed = {0, 1}

\* C8: every template transform_caps returns carries exactly the fixed side's
\* rate, and so does the fixated structure: no rate conversion is offered.
C8_RateUnchanged ==
  /\ Negotiated => \A i \in 1..Len(ret) : ret[i].s.rate = caps.rate
  /\ phase = "fixated" => othercaps.rate = caps.rate

C8_Witness ==
  /\ phase = "fixated" /\ caps.rate = {44100} /\ othercaps.rate = {44100}
  /\ othercaps.name # caps.name /\ ret[tmpl].tier = "channels-cross"

\* C9: for an INTEGER fixed side the second template is FLOAT with width in
\* {32, 64}, native endianness, no depth, no signed, and the fixed side's
\* channels and rate; fixating it picks width 32; for 16-bit stereo the unit
\* sizes are 4 bytes in and 8 bytes out: 4000 and 8000 bytes for 1000 frames.
C9_FloatOfferForInteger ==
  caps.name = RAW_INT =>
    /\ Negotiated =>
         ret[2].s = Structure(RAW_FLOAT, {32, 64}, {}, caps.rate, caps.channels,
                              {G_BYTE_ORDER}, {}, "absent")
    /\ phase = "fixated" /\ tmpl = 2 =>
         /\ othercaps.width = {32}
         /\ [caps EXCEPT !.positions = "absent"] = S16 =>
              LET in == gst_audio_convert_parse_caps(caps, ZeroFmt).fmt
                  out == gst_audio_convert_parse_caps(othercaps, ZeroFmt).fmt
                  c == audio_convert_prepare_context(ZeroCtx, in, out).ctx
                  sz == audio_convert_get_sizes(c, 1000)
              IN  /\ gst_audio_convert_get_unit_size(caps).size = 4
                  /\ gst_audio_convert_get_unit_size(othercaps).size = 8
                  /\ sz.ok /\ sz.insize = 4000 /\ sz.outsize = 8000

C9_Witness ==
  /\ phase = "fixated" /\ tmpl = 2 /\ caps = S16
  /\ othercaps = [F32 EXCEPT !.rate = {44100}]

\* C10 (as stated): every template emitted before the channel-reduction tier
\* admits only the fixed side's channel count.
PreChannelTiers ==
  {"lossless", "lossless-cross", "widening", "widening-cross", "depth16"}
C10_ChannelsKeptBeforeReduction ==
  Negotiated =>
    \A i \in 1..Len(ret) :
      ret[i].tier \in PreChannelTiers => ret[i].s.channels = caps.channels

\* C10 (amended): the lossless tier and its cross-encoding variant admit only
\* the fixed side's channel count c; the widening tier, its cross-encoding
\* variant and the depth-floor-16 tier admit exactly the counts from c up to
\* 8, never fewer than c.
C10_ChannelsNeverReducedBeforeReduction ==
  Negotiated =>
    \A i \in 1..Len(ret) :
      /\ ret[i].tier \in {"lossless", "lossless-cross"} =>
           ret[i].s.channels = caps.channels
      /\ ret[i].tier \in {"widening", "widening-cross", "depth16"} =>
           ret[i].s.channels = ValueOf(caps, "channels")..8

C10_Witness ==
  /\ phase = "templates" /\ caps.channels = {2}
  /\ ret[1].s.channels = {2} /\ ret[3].tier = "widening"
  /\ ret[3].s.channels = 2..8 /\ ret[5].tier = "depth16"

(* ========================= properties: parsing ========================= *)
\* C3: parse_caps fails exactly when a required field is absent (channels,
\* channel positions, width, rate; for INTEGER also signed, depth, and
\* endianness unless width is 8) or an INTEGER format has depth > width; a
\* failure leaves the descriptor cleaned, a success stores
\* unit_size = (width * channels) / 8.
C3_ParseFailsExactlyOnInvalid ==
  parsed \in {"TRUE", "FALSE"} =>
    LET isint == raw.name = RAW_INT
        missing ==
          \/ raw.channels = {} \/ raw.positions = "invalid"
          \/ raw.width = {} \/ raw.rate = {}
          \/ isint /\ (raw.signed = {} \/ raw.depth = {})
          \/ isint /\ raw.width # {8} /\ raw.endianness = {}
        toodeep ==
          isint /\ ~missing /\ ValueOf(raw, "depth") > ValueOf(raw, "width")
    IN  /\ parsed = "FALSE" <=> (missing \/ toodeep)
        /\ parsed = "FALSE" => fmt.pos = "NULL"
        /\ parsed = "TRUE" =>
             /\ fmt.pos = "set"
             /\ fmt.unit_size =
                  (ValueOf(raw, "width") * ValueOf(raw, "channels")) \div 8

C3_Witness ==
  /\ raw = Deep /\ parsed = "FALSE" /\ fmt.depth = 24 /\ fmt.width = 16
  /\ fmt.pos = "NULL" /\ fmt.unit_size = 8

(* ========================== properties: stage ========================== *)
\* C4: convert is invoked only after the size query succeeded and both
\* buffers passed the size checks, with samples = source size / input
\* unit_size; a buffer that is too small gives a flow error, no call of
\* convert and an unchanged destination size.
C4_ConvertOnlyAfterChecks ==
  last.op = "transform" =>
    /\ last.convert =>
         /\ last.sized /\ ctx.in.unit_size > 0
         /\ last.samples = last.inbuf \div ctx.in.unit_size
         /\ last.insize = last.samples * ctx.in.unit_size
         /\ last.outsize = last.samples * ctx.out.unit_size
         /\ last.inbuf >= last.insize /\ last.outbuf >= last.outsize
    /\ last.sized /\ (last.inbuf < last.insize \/ last.outbuf < last.outsize) =>
         /\ last.ret = "GST_FLOW_ERROR" /\ ~last.convert
         /\ last.outafter = last.outbuf

C4_Witness ==
  /\ last.op = "transform" /\ last.convert /\ last.ret = "GST_FLOW_OK"
  /\ last.samples = 2 /\ last.insize = 2 /\ last.outsize = 8
  /\ last.inbuf = 2 /\ last.outbuf = 9 /\ last.outafter = 8

\* C5: whenever transform returns success the destination's logical size is
\* the computed outputBytes; a source holding zero whole frames succeeds and
\* leaves the destination with logical size zero.
C5_SuccessSetsOutputSize ==
  last.op = "transform" /\ last.ret = "GST_FLOW_OK" =>
    last.outafter = last.outsize

\* C6: a transform call made while no set_caps has succeeded ends in a flow
\* error, without invoking convert and without an undefined step.
C6_UnpreparedTransformIsAnError ==
  last.op = "transform" /\ ~ctx.prepared =>
    last.ret = "GST_FLOW_ERROR" /\ ~last.convert /\ ~last.ub

\* C7: a set_caps call that fails because the input or the output caps do not
\* parse leaves the context as it was, so the context is always that of the
\* last successful call's format pair, whole.
C7_ParseFailureKeepsContext ==
  /\ [][ncalls' # ncalls /\ last'.op = "set_caps" /\ last'.parsefail
          => ctx' = ctx]_vars
  /\ [](IF negotiated = <<>> THEN ctx = ZeroCtx
        ELSE ctx = [prepared |-> TRUE,
                    in |-> gst_audio_convert_parse_caps(negotiated[1], ZeroFmt).fmt,
                    out |-> gst_audio_convert_parse_caps(negotiated[2], ZeroFmt).fmt])

C7_Witness ==
  /\ last.op = "set_caps" /\ last.parsefail /\ last.ret = "FALSE"
  /\ ctx.prepared /\ negotiated = <<S16, F32>>
  /\ ctx.in.unit_size = 4 /\ ctx.out.unit_size = 8

(* ================== properties: negotiation, partial caps ============== *)
\* C11 (as stated): when the fixed side has no single concrete channels
\* value, no template has its channels field replaced by the range [1,8].
C11_NoChannelTierWithoutChannels ==
  Negotiated /\ ~gst_structure_get_int(caps, "channels") =>
    \A i \in 1..Len(ret) : ret[i].s.channels = caps.channels

\* C11 (amended): when the fixed side has no single concrete channels value,
\* the templates before the channel-reduction tier keep channels as the fixed
\* side has it (absent stays absent), and the channel-reduction tier, its
\* cross-encoding variant and the fallback still carry channels = [1,8].
C11_OnlyWideningSkippedWithoutChannels ==
  Negotiated /\ ~gst_structure_get_int(caps, "channels") =>
    \A i \in 1..Len(ret) :
      IF ret[i].tier \in PreChannelTiers
      THEN ret[i].s.channels = caps.channels
      ELSE ret[i].s.channels = 1..8

C11_Witness ==
  /\ phase = "templates" /\ caps.channels = {} /\ caps.width = {24}
  /\ ret[3].tier = "widening" /\ ret[3].s.channels = {}
  /\ ret[6].tier = "channels" /\ ret[6].s.channels = 1..8

(* =================== properties: negotiation, tiers ==================== *)
TierOf(name) == ret[CHOOSE i \in 1..Len(ret) : ret[i].tier = name].s
WideInteger ==
  caps.name = RAW_INT /\ gst_structure_get_int(caps, "width")
  /\ ValueOf(caps, "width") > 16

\* C12 (as stated): the channel-reduction template carries the width and
\* depth sets of the widening tier, not those of the depth-floor-16 tier; for
\* an INTEGER fixed side with width > 16 it admits no width or depth below
\* the fixed side's.
C12_ChannelTierCarriesWidening ==
  Negotiated =>
    /\ TierOf("channels").width = TierOf("widening").width
    /\ TierOf("channels").depth = TierOf("widening").depth
    /\ WideInteger =>
         /\ \A w \in TierOf("channels").width : w >= ValueOf(caps, "width")
         /\ \A x \in TierOf("channels").depth :
              x >= ValueOf(TierOf("lossless"), "depth")

\* C12 (amended): the channel-reduction template carries the width and depth
\* sets of the template emitted just before it in the fixed side's encoding:
\* those of the widening tier for a FLOAT fixed side and for an INTEGER fixed
\* side of width <= 16, those of the depth-floor-16 tier (width {16,24,32},
\* depth [16,32]) for an INTEGER fixed side of width > 16, where it admits
\* widths and depths below the fixed side's, down to 16.
C12_ChannelTierCarriesPreviousTier ==
  Negotiated =>
    IF WideInteger
    THEN /\ TierOf("channels").width = {16, 24, 32}
         /\ TierOf("channels").depth = 16..32
         /\ TierOf("channels").width = TierOf("depth16").width
         /\ TierOf("channels").depth = TierOf("depth16").depth
    ELSE /\ TierOf("channels").width = TierOf("widening").width
         /\ TierOf("channels").depth = TierOf("widening").depth

C12_Witness ==
  /\ phase = "templates" /\ caps.name = RAW_INT
  /\ caps.width = {24} /\ caps.depth = {24}
  /\ TierOf("widening").width = {24, 32} /\ TierOf("widening").depth = 24..32
  /\ TierOf("channels").width = {16, 24, 32}
  /\ TierOf("channels").depth = 16..32 /\ TierOf("channels").channels = 1..8

(* ======================= properties: fixation ========================== *)
\* C13: when the fixed side has no depth field, the other side's depth is
\* fixated to the value nearest the other side's already resolved width,
\* never to an undefined value, also when the fixed side has no width.
C13_DepthDefaultsToResolvedWidth ==
  phase = "fixated" /\ gst_caps_is_fixed(caps) /\ caps.depth = {}
    /\ gst_structure_has_field(ret[tmpl].s, "depth") =>
      /\ gst_structure_get_int(othercaps, "width")
      /\ othercaps.depth =
           {NearestInt(ret[tmpl].s.depth, ValueOf(othercaps, "width"))}

(* ======================= properties: fallback ========================== *)
\* C14: the last template is INTEGER and admits exactly the INTEGER formats
\* of the pad template (width in {8,16,24,32}, depth in [1,width], channels in
\* [1,8], either endianness, either signedness) at the fixed side's rate: none
\* outside it, such as depth greater than width, and all inside it.
C14_FallbackIsIntegerEnvelope ==
  Negotiated =>
    /\ Last.name = RAW_INT
    /\ Last.width \X Last.depth = IntegerEnvelope
    /\ Last.channels = 1..8
    /\ Last.endianness = Endians /\ Last.signed = {0, 1}
    /\ Last.rate = caps.rate

====
